---------------------------- MODULE Spec2Model ----------------------------
(* A model of nlp.py: the Text class, its two parsers, document            *)
(* registration into the corpus store (self.data) and the read paths of    *)
(* the four visualisation adapters and of get_features.                    *)
(*                                                                         *)
(* A text is a sequence of one-character strings; a word is a string.      *)
(* A dict is a sequence of <<key, value>> pairs in insertion order, a      *)
(* Counter is such a dict from word to count. An optional value (the       *)
(* result of dict.get) is <<>> for None and <<v>> for v.                   *)
EXTENDS Integers, Sequences, FiniteSets, TLC

VARIABLES
    data,       \* self.data: defaultdict(dict), statistic name -> dict label -> value
    last,       \* the call that ran last: its arguments, its outcome, what it returned
    used,       \* the parsers of the registrations that ran to completion
    ntext,      \* normaliser check: the document text
    nstop,      \* normaliser check: the stop-word set
    nout        \* normaliser check: the parser that ran and the words it kept

vars == <<data, last, used, ntext, nstop, nout>>

-----------------------------------------------------------------------------
(* Bounds *)

\* the k of the adapters ranges over 0..MaxK
MaxK == 3
\* the texts of the normaliser check have at most this many characters
MaxLen == 5

-----------------------------------------------------------------------------
(* Characters: str.lower, string.punctuation, str.isalpha, str.split *)

Lowercase == {"a", "b", "c", "e", "h", "m", "n", "o", "p", "r", "s", "t"}
Uppercase == {"A", "C", "T"}
Digits == {"1", "2"}
Punctuation == {"-", ",", ".", "_", "!"}
Whitespace == {" ", "\n"}

LowerChar(c) ==
    CASE c = "A" -> "a"
      [] c = "C" -> "c"
      [] c = "T" -> "t"
      [] OTHER -> c

\* str.lower()
Lower(text) == [i \in 1..Len(text) |-> LowerChar(text[i])]

\* str.translate(str.maketrans('', '', string.punctuation))
StripPunctuation(text) == SelectSeq(text, LAMBDA c : c \notin Punctuation)

\* str.split(): the maximal runs of non-whitespace characters, in order
RECURSIVE SplitFrom(_, _, _)
SplitFrom(text, i, cur) ==
    IF i > Len(text)
    THEN IF cur = <<>> THEN <<>> ELSE <<cur>>
    ELSE IF text[i] \in Whitespace
         THEN IF cur = <<>>
              THEN SplitFrom(text, i + 1, <<>>)
              ELSE <<cur>> \o SplitFrom(text, i + 1, <<>>)
         ELSE SplitFrom(text, i + 1, Append(cur, text[i]))

Split(text) == SplitFrom(text, 1, <<>>)

\* str.isalpha(): non-empty and every character a letter
IsAlpha(w) == w # <<>> /\ \A i \in 1..Len(w) : w[i] \in Lowercase \cup Uppercase

\* the characters of a token, as one word
RECURSIVE Str(_)
Str(w) == IF w = <<>> THEN "" ELSE Head(w) \o Str(Tail(w))

\* str.strip()
RECURSIVE LStrip(_)
LStrip(s) == IF s # <<>> /\ Head(s) \in Whitespace THEN LStrip(Tail(s)) ELSE s

RECURSIVE RStrip(_)
RStrip(s) ==
    IF s # <<>> /\ s[Len(s)] \in Whitespace THEN RStrip(SubSeq(s, 1, Len(s) - 1)) ELSE s

Strip(s) == RStrip(LStrip(s))

\* `for line in file`: the lines of a text, cut after each newline
RECURSIVE LinesFrom(_, _, _)
LinesFrom(text, i, cur) ==
    IF i > Len(text)
    THEN IF cur = <<>> THEN <<>> ELSE <<cur>>
    ELSE IF text[i] = "\n"
         THEN <<Append(cur, text[i])>> \o LinesFrom(text, i + 1, <<>>)
         ELSE LinesFrom(text, i + 1, Append(cur, text[i]))

\* `sub in s` for two strings: sub occurs in s as a contiguous run
IsSubstring(sub, s) ==
    \E i \in 0..(Len(s) - Len(sub)) : SubSeq(s, i + 1, i + Len(sub)) = sub

-----------------------------------------------------------------------------
(* The files the calls can name *)

NoValue == <<>>
Some(v) == <<v>>

\* a.txt: "sat the cat, on the top-mat 12 Cat!"
DocA ==
    <<"s", "a", "t", " ", "t", "h", "e", " ", "c", "a", "t", ",", " ", "o", "n",
      " ", "t", "h", "e", " ", "t", "o", "p", "-", "m", "a", "t", " ", "1", "2",
      " ", "C", "a", "t", "!">>

\* the text of each page of c.pdf as page.extract_text() gives it; the
\* second page has no extractable text
PdfPages == << Some(<<"C", "a", "t", " ", "r", "a", "n", ".">>),
               NoValue,
               Some(<<"t", "h", "e", " ", "c", "a", "t">>) >>

\* stop_words.txt: "the\n\n on \nSat\n"
StopFileText ==
    <<"t", "h", "e", "\n", "\n", " ", "o", "n", " ", "\n", "S", "a", "t", "\n">>

StopPath == "stop_words.txt"
StopPathChars ==
    <<"s", "t", "o", "p", "_", "w", "o", "r", "d", "s", ".", "t", "x", "t">>

TextFiles == {"a.txt", StopPath}
PdfFiles == {"c.pdf"}
MissingFiles == {"missing.txt", "nostop.txt"}

FileText(path) ==
    CASE path = "a.txt" -> DocA
      [] path = StopPath -> StopFileText


\* the characters of a path, for a path used as a string of stop words
PathChars(path) ==
    CASE path = StopPath -> StopPathChars
      [] path = "nostop.txt" -> <<"n", "o", "s", "t", "o", "p", ".", "t", "x", "t">>

-----------------------------------------------------------------------------
(* Dicts and Counters *)

Keys(d) == [i \in 1..Len(d) |-> d[i][1]]
KeySet(d) == {d[i][1] : i \in 1..Len(d)}
HasKey(d, k) == \E i \in 1..Len(d) : d[i][1] = k
Index(d, k) == CHOOSE i \in 1..Len(d) : d[i][1] = k
Lookup(d, k) == d[Index(d, k)][2]

\* d.get(k): None when k is not a key
Get(d, k) == IF HasKey(d, k) THEN Some(Lookup(d, k)) ELSE NoValue

\* d[k] = v: an existing key keeps its place, a new one goes last
Put(d, k, v) ==
    IF HasKey(d, k)
    THEN [i \in 1..Len(d) |-> IF d[i][1] = k THEN <<k, v>> ELSE d[i]]
    ELSE Append(d, <<k, v>>)

\* Counter(words): one entry per word in first-encountered order
RECURSIVE CountInto(_, _)
CountInto(c, words) ==
    IF words = <<>> THEN c
    ELSE LET w == Head(words)
             n == IF HasKey(c, w) THEN Lookup(c, w) ELSE 0
         IN  CountInto(Put(c, w, n + 1), Tail(words))

Counter(words) == CountInto(<<>>, words)

\* Counter.update(other): add other's counts, entry by entry
RECURSIVE CounterUpdate(_, _)
CounterUpdate(c, other) ==
    IF other = <<>> THEN c
    ELSE LET w == Head(other)[1]
             n == IF HasKey(c, w) THEN Lookup(c, w) ELSE 0
         IN  CounterUpdate(Put(c, w, n + Head(other)[2]), Tail(other))

RECURSIVE SumCounts(_)
SumCounts(c) == IF c = <<>> THEN 0 ELSE Head(c)[2] + SumCounts(Tail(c))

-----------------------------------------------------------------------------
(* Stop words and the two parsers *)

NoStop == [kind |-> "none", path |-> "", words |-> <<>>]
StopFile(p) == [kind |-> "path", path |-> p, words |-> <<>>]
StopList(l) == [kind |-> "words", path |-> "", words |-> l]

Fault(e) == [status |-> e, value |-> <<>>]
Ok(v) == [status |-> "ok", value |-> v]

\* open(path, 'r') and reading it as text
ReadText(path) ==
    IF path \in MissingFiles THEN Fault("FileNotFoundError")
    ELSE IF path \in PdfFiles THEN Fault("UnicodeDecodeError")
    ELSE Ok(FileText(path))

\* load_stop_words(stopfile): the stripped, non-empty lines of the file
load_stop_words(stopfile) ==
    IF stopfile.kind # "path" THEN Fault("TypeError")
    ELSE LET f == ReadText(stopfile.path)
         IN  IF f.status # "ok" THEN f
             ELSE LET lines == LinesFrom(f.value, 1, <<>>)
                      kept == SelectSeq(lines, LAMBDA l : Strip(l) # <<>>)
                  IN  Ok([i \in 1..Len(kept) |-> Str(Strip(kept[i]))])

\* `word not in stop_words`: membership in a list or set of words, and the
\* substring test when stop_words is a string
InStopWords(word, stop_words) ==
    IF stop_words.kind = "path"
    THEN IsSubstring(word, PathChars(stop_words.path))
    ELSE \E i \in 1..Len(stop_words.words) : stop_words.words[i] = Str(word)

\* SimpleTextWords with the tokens filtered before the punctuation is removed
SimpleTextWordsFilterFirst(text, stop_words) ==
    LET tokens == SelectSeq(Split(Lower(text)),
                            LAMBDA w : IsAlpha(w) /\ ~InStopWords(w, stop_words))
    IN  [i \in 1..Len(tokens) |-> Str(StripPunctuation(tokens[i]))]

\* simple_text_parser, from the text read to the words kept
SimpleTextWords(text, stop_words) ==
    LET raw == StripPunctuation(Lower(text))
        words == SelectSeq(Split(raw),
                           LAMBDA w : IsAlpha(w) /\ ~InStopWords(w, stop_words))
    IN  [i \in 1..Len(words) |-> Str(words[i])]

\* SimpleTextResults with num_words the number of distinct words, len(wc)
SimpleTextResultsDistinct(text, stop_words) ==
    << <<"wordcount", Counter(SimpleTextWords(text, stop_words))>>,
       <<"num_words", Len(Counter(SimpleTextWords(text, stop_words)))>> >>

\* simple_text_parser, from the text read to the dict returned
SimpleTextResults(text, stop_words) ==
    << <<"wordcount", Counter(SimpleTextWords(text, stop_words))>>,
       <<"num_words", Len(SimpleTextWords(text, stop_words))>> >>

simple_text_parser(filename, stop_words) ==
    LET f == ReadText(filename)
    IN  IF f.status # "ok" THEN f ELSE Ok(SimpleTextResults(f.value, stop_words))

\* pdfplumber.open(filename): the pages' texts
OpenPdf(filename) ==
    IF filename \in MissingFiles THEN Fault("FileNotFoundError")
    ELSE IF filename \notin PdfFiles THEN Fault("PDFSyntaxError")
    ELSE Ok(PdfPages)

\* the text of the pages that have some, each followed by a newline
RECURSIVE PdfRaw(_)
PdfRaw(pages) ==
    IF pages = <<>> THEN <<>>
    ELSE LET text == Head(pages)
         IN  (IF text # NoValue /\ text[1] # <<>> THEN text[1] \o <<"\n">> ELSE <<>>)
             \o PdfRaw(Tail(pages))

\* pdf_parser, from the concatenated page text to the lowercased,
\* punctuation-free text
PdfNormalised(raw) == StripPunctuation(Lower(raw))

\* pdf_parser, from the normalised text to the words kept
PdfWords(raw, stop_words) ==
    LET words == SelectSeq(Split(raw),
                           LAMBDA w : IsAlpha(w) /\ ~InStopWords(w, stop_words))
    IN  [i \in 1..Len(words) |-> Str(words[i])]

\* pdf_parser, from the pages opened to the dict returned; stop_words is
\* set(self.load_stop_words(stopfile))
PdfResults(pages, stop_words) ==
    << <<"wordcount", Counter(PdfWords(PdfNormalised(PdfRaw(pages)), stop_words))>>,
       <<"num_words", Len(PdfWords(PdfNormalised(PdfRaw(pages)), stop_words))>>,
       <<"num_pages", Len(pages)>>,
       <<"raw_text", Str(PdfNormalised(PdfRaw(pages)))>> >>

pdf_parser(filename, stopfile) ==
    LET s == load_stop_words(stopfile)
    IN  IF s.status # "ok" THEN s
        ELSE LET pdf == OpenPdf(filename)
             IN  IF pdf.status # "ok" THEN pdf
                 ELSE Ok(PdfResults(pdf.value, StopList(s.value)))

-----------------------------------------------------------------------------
(* The corpus store and document registration *)

\* self.data[k] on the defaultdict: a missing key is inserted with an empty dict
Touch(d, k) ==
    IF k \in DOMAIN d THEN d
    ELSE [s \in DOMAIN d \cup {k} |-> IF s = k THEN <<>> ELSE d[s]]

\* self.data[k][label] = v
SetStat(d, k, label, v) ==
    [Touch(d, k) EXCEPT ![k] = Put(Touch(d, k)[k], label, v)]

\* StoreResults with the loop left after its first pass
StoreResultsFirstOnly(d, results, label) ==
    IF results = <<>> THEN d
    ELSE SetStat(d, Head(results)[1], label, Head(results)[2])

\* for k, v in results.items(): self.data[k][label] = v
RECURSIVE StoreResults(_, _, _)
StoreResults(d, results, label) ==
    IF results = <<>> THEN d
    ELSE StoreResults(SetStat(d, Head(results)[1], label, Head(results)[2]),
                      Tail(results), label)

\* the labels the corpus holds under any statistic
Labels(d) == UNION {KeySet(d[s]) : s \in DOMAIN d}

\* load_text up to the parser's return: the stop words loaded when none are
\* given, then the parser chosen; the default branch calls the plain-text
\* parser with the file name alone
ParseFor(filename, stop_words, parser) ==
    LET loaded == IF stop_words.kind = "none"
                  THEN load_stop_words(StopFile(StopPath))
                  ELSE Ok(<<>>)
    IN  IF loaded.status # "ok" THEN loaded
        ELSE LET sw == IF stop_words.kind = "none" THEN StopList(loaded.value)
                       ELSE stop_words
             IN  CASE parser = "none" -> Fault("TypeError")
                   [] parser = "simple_text_parser" -> simple_text_parser(filename, sw)
                   [] parser = "pdf_parser" -> pdf_parser(filename, sw)

\* the label a registration stores under
LabelFor(filename, label) == IF label = NoValue THEN filename ELSE label[1]

\* CorpusAfterLoad with the label entered in the corpus before the parser runs
CorpusAfterLoadEager(d, parsed, label) ==
    StoreResults(SetStat(d, "wordcount", label, <<>>), parsed.value, label)

\* the corpus after load_text, given what the parser call came to
CorpusAfterLoad(d, parsed, label) ==
    IF parsed.status = "ok" THEN StoreResults(d, parsed.value, label) ELSE d

FileNames == {"a.txt", "c.pdf", "missing.txt"}
LabelArgs == {NoValue, Some("A")}
StopArgs ==
    { NoStop, StopFile(StopPath), StopFile("nostop.txt"),
      StopList(<<"the", "on", "sat", "cat", "topmat">>) }
ParserArgs == {"none", "simple_text_parser", "pdf_parser"}

\* what the parser call of load_text comes to, for each choice of arguments
Parsed == [f \in FileNames, s \in StopArgs, p \in ParserArgs |-> ParseFor(f, s, p)]

load_text(filename, label, stop_words, parser) ==
    LET parsed == Parsed[filename, stop_words, parser]
        lbl == LabelFor(filename, label)
    IN  /\ data' = CorpusAfterLoad(data, parsed, lbl)
        /\ used' = IF parsed.status = "ok" THEN used \cup {parser} ELSE used
        /\ last' = [op |-> "load_text", filename |-> filename, label |-> label,
                    stop_words |-> stop_words, parser |-> parser,
                    stored_as |-> lbl, outcome |-> parsed.status,
                    results |-> parsed.value]
        /\ UNCHANGED <<ntext, nstop, nout>>

-----------------------------------------------------------------------------
(* Top-k and the read paths *)

\* the place of entry j when the entries are sorted by count, highest first,
\* by a stable sort: entries of equal count keep the order first encountered
RankOf(c, j) ==
    1 + Cardinality({h \in 1..Len(c) :
                        c[h][2] > c[j][2] \/ (c[h][2] = c[j][2] /\ h < j)})

\* MostCommon with entries of equal count in the order last encountered
MostCommonLatestFirst(c, k) ==
    [r \in 1..(IF k <= 0 THEN 0 ELSE IF k < Len(c) THEN k ELSE Len(c)) |->
        c[CHOOSE j \in 1..Len(c) :
            r = 1 + Cardinality({h \in 1..Len(c) :
                        c[h][2] > c[j][2] \/ (c[h][2] = c[j][2] /\ h > j)})]]

\* Counter.most_common(k): sorted(items, key=count, reverse=True)[:k]
MostCommon(c, k) ==
    [r \in 1..(IF k <= 0 THEN 0 ELSE IF k < Len(c) THEN k ELSE Len(c)) |->
        c[CHOOSE j \in 1..Len(c) : RankOf(c, j) = r]]

\* [word for word, _ in ...]
WordsOf(entries) == [i \in 1..Len(entries) |-> entries[i][1]]
CountsOf(entries) == [i \in 1..Len(entries) |-> entries[i][2]]

RECURSIVE Concat(_)
Concat(ss) == IF ss = <<>> THEN <<>> ELSE Head(ss) \o Concat(Tail(ss))

\* wordcount_sankey: the words chosen for one file
SankeyWords(wordcount, word_list, k) ==
    IF word_list = NoValue THEN WordsOf(MostCommon(wordcount, k)) ELSE word_list[1]

\* wordcount_sankey: the links of one file, one per chosen word that the file
\* holds, as <<source, target, value>>
FileLinks(label, wordcount, words) ==
    [j \in 1..Len(words) |-> <<label, words[j], Lookup(wordcount, words[j])>>]

SankeyLinks(wc, word_list, k) ==
    Concat([i \in 1..Len(wc) |->
        FileLinks(wc[i][1], wc[i][2],
                  SelectSeq(SankeyWords(wc[i][2], word_list, k),
                            LAMBDA w : HasKey(wc[i][2], w)))])

\* list(set(sources + targets)), as a set: a label and a word that are the
\* same string are one node
SankeyNodes(links) ==
    {links[i][1] : i \in 1..Len(links)} \cup {links[i][2] : i \in 1..Len(links)}

WordLists == {NoValue, Some(<<"cat", "A", "dog">>)}

wordcount_sankey(word_list, k) ==
    LET d == Touch(data, "wordcount")
        wc == d["wordcount"]
        links == SankeyLinks(wc, word_list, k)
    IN  /\ data' = d
        /\ last' = [op |-> "wordcount_sankey", word_list |-> word_list, k |-> k,
                    outcome |-> "ok",
                    top_words_per_file |->
                        [i \in 1..Len(wc) |->
                            <<wc[i][1], SankeyWords(wc[i][2], word_list, k)>>],
                    links |-> links,
                    nodes |-> SankeyNodes(links)]
        /\ UNCHANGED <<used, ntext, nstop, nout>>

\* frequency_heatmap: the counts of all files added up, file by file
RECURSIVE WordFreq(_, _)
WordFreq(acc, wc) ==
    IF wc = <<>> THEN acc ELSE WordFreq(CounterUpdate(acc, Head(wc)[2]), Tail(wc))

CountIn(c, w) == IF HasKey(c, w) THEN Lookup(c, w) ELSE 0

\* frequency_heatmap: a row per top word, a column per file
FreqMatrix(wc, top_words) ==
    [i \in 1..Len(top_words) |-> [j \in 1..Len(wc) |-> CountIn(wc[j][2], top_words[i])]]

HeatmapTopWords(wc, k) == WordsOf(MostCommon(WordFreq(<<>>, wc), k))

frequency_heatmap(k) ==
    LET d == Touch(data, "wordcount")
        wc == d["wordcount"]
        top_words == HeatmapTopWords(wc, k)
    IN  /\ data' = d
        /\ last' = [op |-> "frequency_heatmap", k |-> k, outcome |-> "ok",
                    files |-> Keys(wc), top_words |-> top_words,
                    freq_matrix |-> FreqMatrix(wc, top_words)]
        /\ UNCHANGED <<used, ntext, nstop, nout>>

\* frequency_barchart: the bars of each file and their cell in the grid
BarChart(i, label, top_words) ==
    [label |-> label, row |-> ((i - 1) \div 2) + 1, col |-> ((i - 1) % 2) + 1,
     words |-> WordsOf(top_words), counts |-> CountsOf(top_words)]

BarCharts(wc, k) == [i \in 1..Len(wc) |-> BarChart(i, wc[i][1], MostCommon(wc[i][2], k))]

\* make_subplots may refuse a grid of no rows
frequency_barchart(k) ==
    LET d == Touch(data, "wordcount")
        wc == d["wordcount"]
        rows == (Len(wc) + 1) \div 2
    IN  \E outcome \in (IF rows = 0 THEN {"ok", "ValueError"} ELSE {"ok"}) :
          /\ data' = d
          /\ last' = [op |-> "frequency_barchart", k |-> k, outcome |-> outcome,
                      rows |-> rows,
                      charts |-> IF outcome = "ok" THEN BarCharts(wc, k) ELSE <<>>]
          /\ UNCHANGED <<used, ntext, nstop, nout>>

-----------------------------------------------------------------------------
(* The feature deriver *)

\* what the readability scorer (textstat.flesch_kincaid_grade and
\* textstat.polysyllabcount) can answer for a text: the scorer is outside the
\* repository, so each call draws its answer
Scores == {[polysyllables |-> 0, grade |-> 0], [polysyllables |-> 1, grade |-> 2]}

FeatureTexts == {"A", "a.txt", "Z"}

\* get_features(text): the stored wordcount of `text` (None when there is
\* none) and the two scores of the string `text` itself
get_features(text, score) ==
    LET d == Touch(data, "wordcount")
    IN  /\ data' = d
        /\ last' = [op |-> "get_features", text |-> text, outcome |-> "ok",
                    features |-> [word_count |-> Get(d["wordcount"], text),
                                  grade_level |-> score.grade,
                                  polysyllable_count |-> score.polysyllables]]
        /\ UNCHANGED <<used, ntext, nstop, nout>>

\* complexity_heatmap: the rows [num_words, polysyllable_count, grade] of the
\* first n labels; num_words is the optional value dict.get returns
FeatureRows(wc, num_words, scores, n) ==
    [i \in 1..n |-> <<Get(num_words, wc[i][1]), scores[i].polysyllables, scores[i].grade>>]

\* the value of column c in a row
Cell(row, c) == IF c = 1 THEN row[1][1] ELSE row[c]

\* max([item[c] for item in data]) over the rows appended so far
RECURSIVE ColumnMax(_, _, _)
ColumnMax(rows, c, i) ==
    IF i = 1 THEN Cell(rows[1], c)
    ELSE LET m == ColumnMax(rows, c, i - 1)
         IN  IF Cell(rows[i], c) > m THEN Cell(rows[i], c) ELSE m

\* how the i-th pass of the loop ends: the maxima and the quotients are
\* computed in every pass, over the rows appended so far
PassOutcome(rows, i) ==
    IF \E j \in 1..i : rows[j][1] = NoValue THEN "TypeError"
    ELSE IF \E c \in 1..3 : ColumnMax(rows, c, i) = 0 THEN "ZeroDivisionError"
    ELSE "ok"

\* how the loop and the statement after it end
HeatmapOutcome(rows) ==
    IF Len(rows) = 0 THEN "UnboundLocalError"
    ELSE IF \E i \in 1..Len(rows) : PassOutcome(rows, i) # "ok"
         THEN PassOutcome(rows, CHOOSE i \in 1..Len(rows) :
                  /\ PassOutcome(rows, i) # "ok"
                  /\ \A h \in 1..(i - 1) : PassOutcome(rows, h) = "ok")
         ELSE "ok"

\* the quotients of the last pass, each as <<numerator, denominator>>
Normalized(rows) ==
    [j \in 1..Len(rows) |->
        [c \in 1..3 |-> <<Cell(rows[j], c), ColumnMax(rows, c, Len(rows))>>]]

\* the length of list(...)[:k]
SliceLen(len, k) == IF k <= 0 THEN 0 ELSE IF k < len THEN k ELSE len

HeatmapReturn(k, scores, rows, outcome) ==
    [op |-> "complexity_heatmap", k |-> k, scores |-> scores, outcome |-> outcome,
     rows |-> rows,
     normalized_data |-> IF outcome = "ok" THEN Normalized(rows) ELSE <<>>]

complexity_heatmap(k, scores) ==
    LET d == Touch(data, "wordcount")
        n == Len(scores)
        e == IF n >= 1 THEN Touch(d, "num_words") ELSE d
    IN  /\ n = SliceLen(Len(d["wordcount"]), k)
        /\ data' = e
        /\ \E rows \in {FeatureRows(d["wordcount"], e["num_words"], scores, n)} :
              last' = HeatmapReturn(k, scores, rows, HeatmapOutcome(rows))
        /\ UNCHANGED <<used, ntext, nstop, nout>>

-----------------------------------------------------------------------------
(* Specification *)

Init ==
    /\ data = <<>>
    /\ last = [op |-> "init"]
    /\ used = {}
    /\ ntext = <<>>
    /\ nstop = <<>>
    /\ nout = [parser |-> "none", words |-> <<>>]

Next ==
    \/ \E f \in FileNames, l \in LabelArgs, s \in StopArgs, p \in ParserArgs :
          load_text(f, l, s, p)
    \/ \E w \in WordLists, k \in 0..MaxK : wordcount_sankey(w, k)
    \/ \E k \in 0..MaxK : frequency_heatmap(k)
    \/ \E k \in 0..MaxK : frequency_barchart(k)
    \/ \E t \in FeatureTexts, sc \in Scores : get_features(t, sc)
    \/ \E k \in 0..MaxK, n \in 0..MaxK : \E sc \in [1..n -> Scores] :
          complexity_heatmap(k, sc)

Spec == Init /\ [][Next]_vars

-----------------------------------------------------------------------------
(* Registration of a document of any short text, by either parser *)

NormChars == {"a", "t", "A", "-", "1", " "}
NormTexts == UNION {[1..n -> NormChars] : n \in 0..MaxLen}
NormStops == {StopList(<<>>), StopList(<<"a">>), StopFile("nostop.txt")}

InitNorm ==
    /\ data = <<>>
    /\ last = [op |-> "init"]
    /\ used = {}
    /\ ntext \in NormTexts
    /\ nstop \in NormStops
    /\ nout = [parser |-> "none", words |-> <<>>]

\* what load_text leaves behind once the parser has returned `results`
Registered(parser, results, words) ==
    /\ data' = CorpusAfterLoad(data, Ok(results), "doc")
    /\ used' = used \cup {parser}
    /\ last' = [op |-> "load_text", filename |-> "doc", label |-> NoValue,
                stop_words |-> nstop, parser |-> parser, stored_as |-> "doc",
                outcome |-> "ok", results |-> results]
    /\ nout' = [parser |-> parser, words |-> words]
    /\ UNCHANGED <<ntext, nstop>>

\* load_text("doc", stop_words=nstop, parser=simple_text_parser) where the
\* file reads as ntext
LoadSimple ==
    Registered("simple_text_parser", SimpleTextResults(ntext, nstop),
               SimpleTextWords(ntext, nstop))

\* load_text("doc", stop_words=<a stop file>, parser=pdf_parser) where the
\* document has one page that reads as ntext and the stop file holds the
\* words of nstop
LoadPdf ==
    /\ nstop.kind = "words"
    /\ Registered("pdf_parser", PdfResults(<<Some(ntext)>>, nstop),
                  PdfWords(PdfNormalised(PdfRaw(<<Some(ntext)>>)), nstop))

NextNorm == LoadSimple \/ LoadPdf

SpecNorm == InitNorm /\ [][NextNorm]_vars

-----------------------------------------------------------------------------
(* Properties *)

\* the labels a statistic maps; none when the corpus lacks the statistic
StatLabels(s) == IF s \in DOMAIN data THEN KeySet(data[s]) ELSE {}

Range(seq) == {seq[i] : i \in 1..Len(seq)}

\* C1: after a label is registered again, its entry under every statistic is
\* the value of the latest registration, and the entries of every other label
\* are as before.
C1_ReregisterOverwritesAll ==
    [][ (/\ last'.op = "load_text"
         /\ last'.outcome = "ok"
         /\ last'.stored_as \in Labels(data))
        => /\ \A s \in DOMAIN data' :
                HasKey(data'[s], last'.stored_as)
                => /\ HasKey(last'.results, s)
                   /\ Lookup(data'[s], last'.stored_as) = Lookup(last'.results, s)
           /\ \A s \in DOMAIN data : \A l \in KeySet(data[s]) \ {last'.stored_as} :
                HasKey(data'[s], l) /\ Lookup(data'[s], l) = Lookup(data[s], l) ]_vars

\* C2: the counts of the wordcount a parser returns add up to the num_words
\* it returns, and so do the wordcount and the num_words the corpus holds for
\* each label.
C2_CountsSumToNumWords ==
    /\ (last.op = "load_text" /\ last.outcome = "ok")
       => SumCounts(Lookup(last.results, "wordcount")) = Lookup(last.results, "num_words")
    /\ \A l \in StatLabels("wordcount") :
          /\ l \in StatLabels("num_words")
          /\ SumCounts(Lookup(data["wordcount"], l)) = Lookup(data["num_words"], l)

\* a document whose word occurs twice has been registered
C2_Witness ==
    /\ last.op = "load_text"
    /\ last.outcome = "ok"
    /\ Len(Lookup(last.results, "wordcount")) = 1
    /\ Lookup(last.results, "num_words") = 2
    /\ "doc" \in StatLabels("wordcount")

\* the words of a text taken token by token: each whitespace-delimited token
\* is lowercased and loses its punctuation, and is kept when what is left is
\* alphabetic and no stop word
WordsTokenByToken(text, stop_words) ==
    LET tokens == Split(text)
        cleaned == [i \in 1..Len(tokens) |-> StripPunctuation(Lower(tokens[i]))]
        kept == SelectSeq(cleaned, LAMBDA w : IsAlpha(w) /\ ~InStopWords(w, stop_words))
    IN  [i \in 1..Len(kept) |-> Str(kept[i])]

\* a token with a hyphen between two letters
Hyphenated(token) ==
    \E i \in 2..(Len(token) - 1) :
        /\ token[i] = "-"
        /\ IsAlpha(<<token[i - 1]>>)
        /\ IsAlpha(<<token[i + 1]>>)

\* the words of a text taken token by token as above, when a hyphenated
\* token is left out whole
WordsWithoutHyphenated(text, stop_words) ==
    LET tokens == SelectSeq(Split(text), LAMBDA t : ~Hyphenated(t))
        cleaned == [i \in 1..Len(tokens) |-> StripPunctuation(Lower(tokens[i]))]
        kept == SelectSeq(cleaned, LAMBDA w : IsAlpha(w) /\ ~InStopWords(w, stop_words))
    IN  [i \in 1..Len(kept) |-> Str(kept[i])]

\* C3, as amended: both parsers keep, in order and with duplicates, the
\* tokens that are alphabetic and no stop word once lowercased and stripped of
\* punctuation; a hyphen goes with the punctuation, so a hyphenated token
\* contributes its parts joined, and a token with a digit contributes nothing.
C3_NormaliserStripsThenFilters ==
    nout.parser # "none" => nout.words = WordsTokenByToken(ntext, nstop)

\* the text "a-t" has been parsed, and came out as the one word "at"
C3_Witness ==
    /\ nout.parser = "simple_text_parser"
    /\ ntext = <<"a", "-", "t">>
    /\ nout.words = <<"at">>

\* C3, as claimed: a hyphenated token contributes no word at all, neither
\* its parts nor its parts joined; the other tokens are kept when alphabetic
\* and no stop word.
C3_HyphenatedDropped ==
    nout.parser # "none" => nout.words = WordsWithoutHyphenated(ntext, nstop)

\* C4: a load_text call that fails leaves the corpus as it was, and a label
\* gets an entry only in a load_text call that ran to completion for it.
C4_FailedLoadLeavesCorpus ==
    [][ /\ (last'.op = "load_text" /\ last'.outcome # "ok") => data' = data
        /\ \A s \in DOMAIN data' : \A l \in KeySet(data'[s]) :
              (s \notin DOMAIN data \/ ~HasKey(data[s], l))
              => (last'.op = "load_text" /\ last'.outcome = "ok"
                  /\ last'.stored_as = l) ]_vars

\* a load has failed on a missing file while the corpus held a document
C4_Witness ==
    /\ last.op = "load_text"
    /\ last.outcome = "FileNotFoundError"
    /\ Labels(data) # {}

\* C5: in complexity_heatmap, a column whose maximum over the batch is zero
\* comes out as all zeros, and no fault reaches the caller.
C5_ZeroMaxGuarded ==
    (/\ last.op = "complexity_heatmap"
     /\ Len(last.rows) >= 1
     /\ \A j \in 1..Len(last.rows) : last.rows[j][1] # NoValue)
    => \A c \in 1..3 :
          (/\ \A j \in 1..Len(last.rows) : Cell(last.rows[j], c) <= 0
           /\ \E j \in 1..Len(last.rows) : Cell(last.rows[j], c) = 0)
          => /\ last.outcome = "ok"
             /\ \A j \in 1..Len(last.rows) : last.normalized_data[j][c][1] = 0

\* C6, as amended: when every registration used the same parser, every
\* statistic the corpus holds maps the same labels; whatever the parsers,
\* wordcount and num_words map the same labels, and num_pages and raw_text
\* map the same labels, all of them labels of wordcount.
C6_SameLabelsPerParser ==
    /\ Cardinality(used) <= 1
       => \A s, t \in DOMAIN data : KeySet(data[s]) = KeySet(data[t])
    /\ StatLabels("wordcount") = StatLabels("num_words")
    /\ StatLabels("num_pages") = StatLabels("raw_text")
    /\ StatLabels("num_pages") \subseteq StatLabels("wordcount")

\* two labels have been registered, both by the paginated parser
C6_Witness ==
    /\ used = {"pdf_parser"}
    /\ Cardinality(StatLabels("num_pages")) = 2
    /\ last.op = "load_text"

\* C6, as claimed: after loads by any of the two parsers, every statistic the
\* corpus holds maps the same labels.
C6_SameLabelsAlways ==
    last.op = "load_text" => \A s, t \in DOMAIN data : KeySet(data[s]) = KeySet(data[t])

\* C7: get_features of a label that was never registered ends in an error,
\* and returns no feature record.
C7_UnknownLabelFails ==
    (last.op = "get_features" /\ last.text \notin Labels(data))
    => last.outcome # "ok"

Readers ==
    {"wordcount_sankey", "frequency_heatmap", "frequency_barchart",
     "complexity_heatmap", "get_features"}

\* C8: the adapters and get_features leave the corpus as it was, the set of
\* its statistic names included.
C8_ReadersLeaveCorpus ==
    [][last'.op \in Readers => data' = data]_vars

\* C9: load_text with only the path of a readable text file registers it
\* under the path, with the wordcount and num_words the plain-text parser gives
\* with the stop words of the default file.
C9_DefaultsRegister ==
    (/\ last.op = "load_text"
     /\ last.filename = "a.txt"
     /\ last.label = NoValue
     /\ last.stop_words = NoStop
     /\ last.parser = "none")
    => /\ last.outcome = "ok"
       /\ "a.txt" \in StatLabels("wordcount") \cap StatLabels("num_words")
       /\ LET expected ==
                  SimpleTextResults(DocA, StopList(load_stop_words(StopFile(StopPath)).value))
          IN  /\ Lookup(data["wordcount"], "a.txt") = Lookup(expected, "wordcount")
              /\ Lookup(data["num_words"], "a.txt") = Lookup(expected, "num_words")

\* u comes before w among the most common of c: its count is higher, or the
\* counts are equal and u was encountered first
Before(c, u, w) ==
    \/ Lookup(c, u) > Lookup(c, w)
    \/ Lookup(c, u) = Lookup(c, w) /\ Index(c, u) < Index(c, w)

\* top lists min(k, size of c) words of c, each before the next and before
\* every word of c left out
IsTopK(c, k, top) ==
    /\ Len(top) = IF k < Len(c) THEN k ELSE Len(c)
    /\ Range(top) \subseteq KeySet(c)
    /\ \A i, j \in 1..Len(top) : i < j => Before(c, top[i], top[j])
    /\ \A i \in 1..Len(top) : \A w \in KeySet(c) \ Range(top) : Before(c, top[i], w)
    /\ k >= Len(c) => Range(top) = KeySet(c)

\* the words of a sequence, each once, in the order first seen
RECURSIVE FirstSeen(_)
FirstSeen(seq) ==
    IF seq = <<>> THEN <<>>
    ELSE LET front == FirstSeen(SubSeq(seq, 1, Len(seq) - 1))
         IN  IF seq[Len(seq)] \in Range(front) THEN front
             ELSE Append(front, seq[Len(seq)])

RECURSIVE TotalCount(_, _)
TotalCount(wc, w) ==
    IF wc = <<>> THEN 0 ELSE CountIn(Head(wc)[2], w) + TotalCount(Tail(wc), w)

\* the counts of the whole corpus, word by word in the order first seen
CorpusCounts(wc) ==
    LET words == FirstSeen(Concat([i \in 1..Len(wc) |-> Keys(wc[i][2])]))
    IN  [i \in 1..Len(words) |-> <<words[i], TotalCount(wc, words[i])>>]

\* C10: the words each adapter selects for k are the min(k, vocabulary size)
\* words of highest count, highest first, equal counts in first-encountered
\* order: per file in wordcount_sankey and frequency_barchart, over the summed
\* counts in frequency_heatmap; all of them end without a fault.
C10_TopK ==
    /\ (last.op = "wordcount_sankey" /\ last.word_list = NoValue)
       => /\ last.outcome = "ok"
          /\ Len(last.top_words_per_file) = Len(data["wordcount"])
          /\ \A i \in 1..Len(data["wordcount"]) :
                /\ last.top_words_per_file[i][1] = data["wordcount"][i][1]
                /\ IsTopK(data["wordcount"][i][2], last.k, last.top_words_per_file[i][2])
    /\ (last.op = "frequency_barchart" /\ last.rows > 0)
       => /\ last.outcome = "ok"
          /\ Len(last.charts) = Len(data["wordcount"])
          /\ \A i \in 1..Len(data["wordcount"]) :
                /\ last.charts[i].label = data["wordcount"][i][1]
                /\ IsTopK(data["wordcount"][i][2], last.k, last.charts[i].words)
                /\ \A j \in 1..Len(last.charts[i].words) :
                      last.charts[i].counts[j]
                        = Lookup(data["wordcount"][i][2], last.charts[i].words[j])
    /\ last.op = "frequency_heatmap"
       => /\ last.outcome = "ok"
          /\ IsTopK(CorpusCounts(data["wordcount"]), last.k, last.top_words)

\* the heatmap has picked the two most common words of a corpus of two files
\* that holds more words than that
C10_Witness ==
    /\ last.op = "frequency_heatmap"
    /\ last.k = 2
    /\ Len(last.files) = 2
    /\ Len(last.top_words) = 2
    /\ Len(CorpusCounts(data["wordcount"])) > 2

=============================================================================
